---- MODULE Spec2Model ----
(***************************************************************************)
(* Model of src/src/App.js: the Ems-Jade-Kanal water quality dashboard.    *)
(*                                                                         *)
(* The program is a React component tree over two constants (sampleData,   *)
(* parameterInfo).  Its state is the router's pathname, the hook state of  *)
(* the one component instance mounted by <Routes> (Graphs keeps            *)
(* selectedParameters, IndividualReadings keeps currentReading, Overview   *)
(* keeps nothing), the key of the wrapper that AnimatePresence has on the   *)
(* page and whether that wrapper is still playing its exit animation.      *)
(* What React has put on the page is kept in the variable screen,          *)
(* recomputed by every step as React re-renders after every state change.  *)
(*                                                                         *)
(* The source does not fix the version of framer-motion.  Where the        *)
(* versions differ (a return to the pathname whose wrapper is still        *)
(* exiting) the model takes either outcome.                                *)
(*                                                                         *)
(* Numbers of the data set carry one decimal (17.5, 7.1, 0.5); they are    *)
(* held in tenths (175, 71, 5) and Display turns them into the text that   *)
(* JavaScript's number-to-string conversion puts into the page.            *)
(* JavaScript indices are 0-based, TLA+ sequences 1-based: ElementAt       *)
(* converts.                                                               *)
(***************************************************************************)
EXTENDS Integers, Sequences, FiniteSets, TLC

VARIABLES
    Dataset,     \* the array the views read (sampleData in the source)
    pathname,    \* location.pathname of the router
    view,        \* the mounted route element and its useState cells
    wrapper,     \* the key of the motion.div on the page; "none" when
                 \* AnimatePresence renders no child
    exiting,     \* TRUE while an exit animation is pending
    screen,      \* the last render output (or the error that ended rendering)
    lastLost     \* history: the component of the instance that was unmounted
                 \* last while its state differed from the initial state;
                 \* "none" again once a handler has changed the state

vars == <<Dataset, pathname, view, wrapper, exiting, screen, lastLost>>

----------------------------------------------------------------------------
(* The constants of the program *)

\* Object.entries(reading): the fields of a reading in insertion order, each
\* a <<key, value>> pair.
Reading1 ==
    << <<"date", "2023-01-01">>,
       <<"temperature", 180>>,
       <<"prevDayTemp", 175>>,
       <<"nitrat", 100>>,
       <<"nitrit", 50>>,
       <<"phosphat", 80>>,
       <<"ph", 70>>,
       <<"sauerstoff", 150>>,
       <<"carbonhearte", 30>>,
       <<"ammonium", 20>>,
       <<"notes", "Clear conditions with no significant debris.">> >>

Reading2 ==
    << <<"date", "2023-01-02">>,
       <<"temperature", 190>>,
       <<"prevDayTemp", 180>>,
       <<"nitrat", 120>>,
       <<"nitrit", 60>>,
       <<"phosphat", 90>>,
       <<"ph", 71>>,
       <<"sauerstoff", 145>>,
       <<"carbonhearte", 32>>,
       <<"ammonium", 21>>,
       <<"notes", "Slight increase in turbidity, minor debris observed.">> >>

sampleData == <<Reading1, Reading2>>

\* Object.keys(parameterInfo), in insertion order.
ParameterKeys ==
    <<"nitrat", "nitrit", "phosphat", "ph", "sauerstoff", "carbonhearte",
      "ammonium">>

parameterInfo ==
    [ nitrat       |-> [label |-> "Nitrate", unit |-> "mg/L", alert |-> 500,
                        warning |-> 300, icon |-> "FlaskConical",
                        color |-> "text-red-600"],
      nitrit       |-> [label |-> "Nitrite", unit |-> "mg/L", alert |-> 10,
                        warning |-> 5, icon |-> "FlaskConical",
                        color |-> "text-yellow-600"],
      phosphat     |-> [label |-> "Phosphate", unit |-> "mg/L", alert |-> 20,
                        warning |-> 10, icon |-> "FlaskConical",
                        color |-> "text-blue-600"],
      ph           |-> [label |-> "pH Value", unit |-> "", alert |-> 85,
                        warning |-> 80, icon |-> "Droplet",
                        color |-> "text-green-600"],
      sauerstoff   |-> [label |-> "Oxygen Content", unit |-> "mg/L",
                        alert |-> 60, warning |-> 70, icon |-> "Droplet",
                        color |-> "text-teal-600"],
      carbonhearte |-> [label |-> "Carbonate Hardness", unit |-> "°dH",
                        alert |-> 150, warning |-> 120,
                        icon |-> "FlaskConical", color |-> "text-purple-600"],
      ammonium     |-> [label |-> "Ammonium", unit |-> "mg/L", alert |-> 10,
                        warning |-> 5, icon |-> "FlaskConical",
                        color |-> "text-orange-600"] ]

\* The properties that parameterInfo, an object literal, inherits from
\* Object.prototype: functions (and the prototype itself), all truthy, none
\* with a label, unit, icon or color.
ObjectPrototypeKeys ==
    {"constructor", "hasOwnProperty", "isPrototypeOf", "propertyIsEnumerable",
     "toLocaleString", "toString", "valueOf", "__proto__",
     "__defineGetter__", "__defineSetter__", "__lookupGetter__",
     "__lookupSetter__"}

\* parameterInfo[key] is truthy: key is a key of the registry or of its
\* prototype.
HasParameterInfo(key) ==
    key \in DOMAIN parameterInfo \cup ObjectPrototypeKeys

\* What a property read gives when the property is not there.
Undefined == "<undefined>"

\* parameterInfo[key][property], for a key with truthy parameterInfo[key].
InfoProperty(key, property) ==
    IF key \in DOMAIN parameterInfo THEN parameterInfo[key][property]
                                    ELSE Undefined

\* The three <Route path=...> of App.
Paths == {"/", "/graphs", "/readings"}

\* An initial selection other than the source's.
InitialSelectedParameters_Other == <<"nitrat">>

\* useState(['nitrat', 'phosphat', 'ph'])
InitialSelectedParameters == <<"nitrat", "phosphat", "ph">>

\* useState(0)
InitialCurrentReading == 0

----------------------------------------------------------------------------
(* JavaScript helpers *)

\* Display that drops the decimal.
Display_Truncated(n) == ToString(n \div 10)

\* {value} in JSX for a number held in tenths: String(18) = "18",
\* String(17.5) = "17.5", String(0.5) = "0.5".
Display(n) ==
    LET magnitude == IF n < 0 THEN 0 - n ELSE n
        sign == IF n < 0 THEN "-" ELSE ""
    IN IF magnitude % 10 = 0
       THEN sign \o ToString(magnitude \div 10)
       ELSE sign \o ToString(magnitude \div 10) \o "."
                \o ToString(magnitude % 10)

\* array.includes(key)
Includes(array, key) == \E i \in 1..Len(array) : array[i] = key

\* array[index] with a 0-based index is defined
InRange(array, index) == index >= 0 /\ index < Len(array)

\* array[index] with a 0-based index
ElementAt(array, index) == array[index + 1]

\* key in reading
HasField(reading, key) == \E i \in 1..Len(reading) : reading[i][1] = key

\* reading[key], for a key the reading has
Field(reading, key) ==
    reading[CHOOSE i \in 1..Len(reading) : reading[i][1] = key][2]

\* {reading[key]} in JSX: React renders nothing for undefined.
DisplayField(reading, key) ==
    IF HasField(reading, key) THEN Display(Field(reading, key)) ELSE ""

\* A render that threw: "Cannot read properties of undefined".  There is no
\* error boundary, so React unmounts the whole tree.
TypeError == [component |-> "none", error |-> "TypeError"]

\* A render that threw because React.createElement was given undefined as
\* the element type.
InvalidElementType == [component |-> "none", error |-> "InvalidElementType"]

----------------------------------------------------------------------------
(* Rendering *)

\* OverviewTile that colours a value at or above the alert threshold red.
OverviewTile_Alerting(key, latest) ==
    [ key     |-> key,
      icon    |-> parameterInfo[key].icon,
      color   |-> IF HasField(latest, key)
                     /\ Field(latest, key) >= parameterInfo[key].alert
                  THEN "text-red-600"
                  ELSE parameterInfo[key].color,
      label   |-> parameterInfo[key].label,
      value   |-> DisplayField(latest, key),
      unit    |-> parameterInfo[key].unit,
      text    |-> DisplayField(latest, key) \o " " \o parameterInfo[key].unit,
      caption |-> "Latest Reading" ]

\* The tile that Overview maps one entry [key, info] of parameterInfo to,
\* reading the first element of the data set.
OverviewTile(key, latest) ==
    [ key     |-> key,
      icon    |-> parameterInfo[key].icon,
      color   |-> parameterInfo[key].color,
      label   |-> parameterInfo[key].label,
      value   |-> DisplayField(latest, key),
      unit    |-> parameterInfo[key].unit,
      text    |-> DisplayField(latest, key) \o " " \o parameterInfo[key].unit,
      caption |-> "Latest Reading" ]

\* Overview({loading: false}): sampleData[0][key] throws when the data set
\* has no first element.
RenderOverview(data) ==
    IF ~InRange(data, 0)
    THEN TypeError
    ELSE [ component |-> "Overview",
           error     |-> "none",
           tiles     |-> [i \in 1..Len(ParameterKeys) |->
                             OverviewTile(ParameterKeys[i],
                                          ElementAt(data, 0))] ]

\* The <button> of the parameter selection for one registry key.
ParameterButton(selectedParameters, key) ==
    [ key      |-> key,
      label    |-> parameterInfo[key].label,
      selected |-> Includes(selectedParameters, key) ]

\* Line that names the series by its key instead of the registry's label.
Line_NamedByKey(param, index) ==
    [ key     |-> param,
      dataKey |-> param,
      name    |-> param,
      stroke  |-> "hsl(" \o ToString(index * 40) \o ", 70%, 50%)" ]

\* The <Line> for the element of selectedParameters at 0-based index.
Line(param, index) ==
    [ key     |-> param,
      dataKey |-> param,
      name    |-> InfoProperty(param, "label"),
      stroke  |-> "hsl(" \o ToString(index * 40) \o ", 70%, 50%)" ]

\* Graphs(): parameterInfo[param].label throws for a param with undefined
\* parameterInfo[param].
RenderGraphs(selectedParameters, data) ==
    IF \E i \in 1..Len(selectedParameters) :
           ~HasParameterInfo(selectedParameters[i])
    THEN TypeError
    ELSE [ component |-> "Graphs",
           error     |-> "none",
           buttons   |-> [i \in 1..Len(ParameterKeys) |->
                             ParameterButton(selectedParameters,
                                             ParameterKeys[i])],
           xAxis     |-> "date",
           points    |-> Len(data),
           lines     |-> [i \in 1..Len(selectedParameters) |->
                             Line(selectedParameters[i], i - 1)] ]

\* The entry of the "Chemical Parameters" grid for one [key, value] of the
\* reading that passed the filter.
ChemicalParameter(entry) ==
    [ key   |-> entry[1],
      icon  |-> InfoProperty(entry[1], "icon"),
      color |-> InfoProperty(entry[1], "color"),
      label |-> InfoProperty(entry[1], "label"),
      value |-> Display(entry[2]),
      unit  |-> InfoProperty(entry[1], "unit"),
      text  |-> Display(entry[2]) \o " " \o InfoProperty(entry[1], "unit") ]

\* FilterEntries without the filter: every field of the reading passes.
FilterEntries_Unfiltered(reading) == reading

\* Object.entries(reading).filter(([key]) => parameterInfo[key])
FilterEntries(reading) ==
    SelectSeq(reading, LAMBDA entry : HasParameterInfo(entry[1]))

\* Object.entries(reading).filter(...).map(...)
ChemicalParameters(reading) ==
    [i \in 1..Len(FilterEntries(reading)) |->
        ChemicalParameter(FilterEntries(reading)[i])]

\* IndividualReadings({loading: false}): sampleData[currentReading].date
\* throws when the data set has no element at currentReading; an entry that
\* passed the filter on an inherited key has no icon to create.
RenderReadings(currentReading, data) ==
    IF ~InRange(data, currentReading)
    THEN TypeError
    ELSE IF \E i \in 1..Len(FilterEntries(ElementAt(data, currentReading))) :
                InfoProperty(
                    FilterEntries(ElementAt(data, currentReading))[i][1],
                    "icon") = Undefined
    THEN InvalidElementType
    ELSE [ component    |-> "IndividualReadings",
           error        |-> "none",
           heading      |-> "Reading " \o ToString(currentReading + 1)
                               \o " of " \o ToString(Len(data)),
           date         |-> Field(ElementAt(data, currentReading), "date"),
           prevDisabled |-> (currentReading = 0),
           nextDisabled |-> (currentReading = Len(data) - 1),
           temperature  |->
               DisplayField(ElementAt(data, currentReading), "temperature")
                   \o "°C",
           prevDayTemp  |->
               DisplayField(ElementAt(data, currentReading), "prevDayTemp")
                   \o "°C",
           parameters   |->
               ChemicalParameters(ElementAt(data, currentReading)),
           notes        |-> Field(ElementAt(data, currentReading), "notes") ]

\* What React renders for a mounted route element.
Render(v, data) ==
    CASE v.component = "Overview" -> RenderOverview(data)
      [] v.component = "Graphs" -> RenderGraphs(v.selectedParameters, data)
      [] v.component = "IndividualReadings" ->
             RenderReadings(v.currentReading, data)
      [] OTHER -> TypeError

----------------------------------------------------------------------------
(* The shell: routes and mounting *)

\* <Routes>: the element of the route that matches the pathname, as mounted,
\* with its useState cells at their initial values.
RouteElement(path) ==
    CASE path = "/" -> [component |-> "Overview"]
      [] path = "/graphs" ->
             [component |-> "Graphs",
              selectedParameters |-> InitialSelectedParameters]
      [] path = "/readings" ->
             [component |-> "IndividualReadings",
              currentReading |-> InitialCurrentReading]

\* The instance v, mounted for path, is unmounted: its state is gone; the
\* history records its component when the state differed from the initial
\* one.
Discard(v, path) ==
    IF v.component = "none" \/ v = RouteElement(path) THEN lastLost
                                                      ELSE v.component

\* No route element is mounted.
NoView == [component |-> "none"]

\* The content area is empty: AnimatePresence renders no child.
Blank == [component |-> "none", error |-> "none"]

\* The state of the mounted instance became v and React renders it.  A
\* render that throws takes the whole tree down; view then keeps the state
\* the failed render was given.
Commit(v) ==
    /\ view' = v
    /\ screen' = Render(v, Dataset)

\* The page is up: no render has thrown.
Running == screen.error = "none"

----------------------------------------------------------------------------
(* The event handlers' computations *)

Max(a, b) == IF a >= b THEN a ELSE b

Min(a, b) == IF a <= b THEN a ELSE b

\* ToggleParameter without the membership test: the key is always added.
ToggleParameter_AlwaysAppend(selectedParameters, key) ==
    Append(selectedParameters, key)

\* ToggleParameter that puts a new key in front of the list.
ToggleParameter_Prepend(selectedParameters, key) ==
    IF Includes(selectedParameters, key)
    THEN SelectSeq(selectedParameters, LAMBDA p : p # key)
    ELSE <<key>> \o selectedParameters

\* onClick of a parameter button:
\*   selectedParameters.includes(key)
\*     ? selectedParameters.filter(p => p !== key)
\*     : [...selectedParameters, key]
ToggleParameter(selectedParameters, key) ==
    IF Includes(selectedParameters, key)
    THEN SelectSeq(selectedParameters, LAMBDA p : p # key)
    ELSE Append(selectedParameters, key)

\* PreviousReading without the clamp at 0.
PreviousReading_NoClamp(prev) == prev - 1

\* prev => Math.max(0, prev - 1)
PreviousReading(prev) == Max(0, prev - 1)

\* NextReading that wraps around to the first reading after the last one.
NextReading_Wrap(prev, data) == (prev + 1) % Len(data)

\* prev => Math.min(sampleData.length - 1, prev + 1)
NextReading(prev, data) == Min(Len(data) - 1, prev + 1)

----------------------------------------------------------------------------
(* Actions *)

\* The page is loaded at one of the three routes.
Init ==
    /\ Dataset = sampleData
    /\ pathname \in Paths
    /\ wrapper = pathname
    /\ exiting = FALSE
    /\ lastLost = "none"
    /\ view = RouteElement(pathname)
    /\ screen = Render(view, Dataset)

\* A click on the <Link to={path}> of the sidebar.  A link to the current
\* pathname changes neither the key of the wrapper nor the matched route.
\* Otherwise <Routes>, which takes the location from the router, unmounts
\* the route element of the old path, and:
\*  - with no wrapper on the page, the wrapper keyed by the new pathname is
\*    mounted with the new route element;
\*  - with the wrapper of another key on the page, AnimatePresence
\*    (mode="wait") keeps that wrapper until its exit animation is over, and
\*    the new route element is mounted inside it;
\*  - with the wrapper of the new pathname itself on the page, still exiting,
\*    the version of framer-motion decides: the wrapper is taken as present
\*    again, with the new route element inside and no exit pending, or no
\*    child is rendered until the next change of pathname.
Navigate(path) ==
    /\ Running
    /\ path \in Paths
    /\ IF path = pathname
       THEN UNCHANGED vars
       ELSE /\ pathname' = path
            /\ lastLost' = Discard(view, pathname)
            /\ UNCHANGED Dataset
            /\ IF wrapper = "none"
               THEN /\ wrapper' = path
                    /\ exiting' = FALSE
                    /\ Commit(RouteElement(path))
               ELSE IF wrapper # path
               THEN /\ wrapper' = wrapper
                    /\ exiting' =
                           (Render(RouteElement(path), Dataset).error = "none")
                    /\ Commit(RouteElement(path))
               ELSE \/ /\ wrapper' = wrapper
                       /\ exiting' = FALSE
                       /\ Commit(RouteElement(path))
                    \/ /\ wrapper' = "none"
                       /\ exiting' = TRUE
                       /\ view' = NoView
                       /\ screen' = Blank

\* The exit animation of the old wrapper is over (mode="wait"): it is removed
\* with the instance it holds, and the wrapper keyed by the current pathname
\* is mounted with a new instance of the route element.
ExitComplete ==
    /\ Running
    /\ exiting
    /\ wrapper # "none"
    /\ wrapper' = pathname
    /\ exiting' = FALSE
    /\ lastLost' = Discard(view, pathname)
    /\ Commit(RouteElement(pathname))
    /\ UNCHANGED <<Dataset, pathname>>

\* A click on the button of a registry key in the Graphs view.
Toggle(key) ==
    /\ Running
    /\ view.component = "Graphs"
    /\ Includes(ParameterKeys, key)
    /\ Commit([view EXCEPT !.selectedParameters = ToggleParameter(@, key)])
    /\ lastLost' = "none"
    /\ UNCHANGED <<Dataset, pathname, wrapper, exiting>>

\* A click on the left button of the Readings view; a disabled button
\* (disabled={currentReading === 0}) delivers no click.
Previous ==
    /\ Running
    /\ view.component = "IndividualReadings"
    /\ ~screen.prevDisabled
    /\ Commit([view EXCEPT !.currentReading = PreviousReading(@)])
    /\ lastLost' = "none"
    /\ UNCHANGED <<Dataset, pathname, wrapper, exiting>>

\* A click on the right button of the Readings view; a disabled button
\* (disabled={currentReading === sampleData.length - 1}) delivers no click.
NextClick ==
    /\ Running
    /\ view.component = "IndividualReadings"
    /\ ~screen.nextDisabled
    /\ Commit([view EXCEPT !.currentReading = NextReading(@, Dataset)])
    /\ lastLost' = "none"
    /\ UNCHANGED <<Dataset, pathname, wrapper, exiting>>

Next ==
    \/ \E path \in Paths : Navigate(path)
    \/ ExitComplete
    \/ \E key \in DOMAIN parameterInfo : Toggle(key)
    \/ Previous
    \/ NextClick

Spec == Init /\ [][Next]_vars

----------------------------------------------------------------------------
(* Properties *)

InReadings == view.component = "IndividualReadings"

InGraphs == view.component = "Graphs"

LastIndex == Len(Dataset) - 1

\* The members of a list.
Members(list) == { list[i] : i \in 1..Len(list) }

\* C1: in the Readings view, on the non-empty data set, currentReading stays
\* within 0 .. length - 1 whatever previous() and next() are run, and neither
\* of them wraps around: at every index the cursor can have, previous() and
\* next() give an index within the range, previous() at 0 does not give the
\* last index and next() at the last index does not give 0.
C1_CursorInRange ==
    InReadings =>
        /\ Len(Dataset) > 0
        /\ 0 <= view.currentReading
        /\ view.currentReading <= LastIndex
        /\ PreviousReading(view.currentReading) \in 0..LastIndex
        /\ NextReading(view.currentReading, Dataset) \in 0..LastIndex
        /\ (view.currentReading = 0 /\ LastIndex > 0) =>
               PreviousReading(view.currentReading) # LastIndex
        /\ (view.currentReading = LastIndex /\ LastIndex > 0) =>
               NextReading(view.currentReading, Dataset) # 0

\* The cursor stands on the last of the readings: next() has moved it there.
C1_Witness ==
    /\ InReadings
    /\ view.currentReading = 1
    /\ view.currentReading = LastIndex
    /\ screen.error = "none"

\* C2: at index 0 previous() leaves the index alone and the "previous" button
\* is disabled; at the last index next() leaves it alone and the "next"
\* button is disabled; at every other index the button is enabled and the
\* operation moves the index by exactly one.
C2_Boundaries ==
    /\ [](InReadings =>
            /\ screen.prevDisabled <=> (view.currentReading = 0)
            /\ screen.nextDisabled <=> (view.currentReading = LastIndex)
            /\ PreviousReading(view.currentReading) =
                   IF view.currentReading = 0 THEN 0
                   ELSE view.currentReading - 1
            /\ NextReading(view.currentReading, Dataset) =
                   IF view.currentReading = LastIndex THEN LastIndex
                   ELSE view.currentReading + 1)
    /\ [][Previous =>
            /\ ~screen.prevDisabled
            /\ view'.currentReading = view.currentReading - 1]_vars
    /\ [][NextClick =>
            /\ ~screen.nextDisabled
            /\ view'.currentReading = view.currentReading + 1]_vars

\* The cursor was moved off the first reading onto the last: "previous" is
\* enabled, "next" is disabled.
C2_Witness ==
    /\ InReadings
    /\ view.currentReading > 0
    /\ ~screen.prevDisabled
    /\ screen.nextDisabled

\* C3: for every selection the Graphs view can reach and every registry key,
\* toggling the key twice gives a selection with the members it had before,
\* whether or not the key was a member.
C3_DoubleToggle ==
    InGraphs =>
        \A key \in DOMAIN parameterInfo :
            Members(ToggleParameter(
                        ToggleParameter(view.selectedParameters, key), key))
                = Members(view.selectedParameters)

\* The default selection after nitrat was toggled twice: the same members,
\* in another order.
C3_Witness ==
    /\ InGraphs
    /\ view.selectedParameters = <<"phosphat", "ph", "nitrat">>
    /\ Members(view.selectedParameters) = Members(InitialSelectedParameters)

\* C4: the Graphs view shows exactly one line per selected key, named by the
\* registry's label of that key; the default selection gives the three lines
\* "Nitrate", "Phosphate", "pH Value"; the empty selection gives no line and
\* no error.
C4_Series ==
    InGraphs =>
        /\ screen.error = "none"
        /\ Len(screen.lines) = Cardinality(Members(view.selectedParameters))
        /\ \A key \in Members(view.selectedParameters) :
               Cardinality({ i \in 1..Len(screen.lines) :
                               screen.lines[i].dataKey = key }) = 1
        /\ \A i \in 1..Len(screen.lines) :
               /\ screen.lines[i].dataKey \in Members(view.selectedParameters)
               /\ screen.lines[i].name =
                      parameterInfo[screen.lines[i].dataKey].label
        /\ view.selectedParameters = <<"nitrat", "phosphat", "ph">> =>
               [i \in 1..3 |-> screen.lines[i].name]
                   = <<"Nitrate", "Phosphate", "pH Value">>
        /\ view.selectedParameters = <<>> => screen.lines = <<>>

\* Every key of the default selection has been toggled off: the chart has no
\* line.
C4_Witness ==
    /\ InGraphs
    /\ view.selectedParameters = <<>>
    /\ screen.error = "none"
    /\ screen.lines = <<>>

\* C5: the Overview shows one tile per registry key; the tile of key k shows
\* the value of k in the first reading of the data set with the registry's
\* unit of k, in the registry's colour of k whatever the value is compared
\* with the alert and warning thresholds.
C5_Tiles ==
    screen.component = "Overview" =>
        /\ Len(screen.tiles) = Cardinality(DOMAIN parameterInfo)
        /\ \A key \in DOMAIN parameterInfo :
               Cardinality({ i \in 1..Len(screen.tiles) :
                               screen.tiles[i].key = key }) = 1
        /\ \A i \in 1..Len(screen.tiles) :
               /\ screen.tiles[i].value =
                      Display(Field(Dataset[1], screen.tiles[i].key))
               /\ screen.tiles[i].unit =
                      parameterInfo[screen.tiles[i].key].unit
               /\ screen.tiles[i].color =
                      parameterInfo[screen.tiles[i].key].color
        /\ [i \in 1..Len(screen.tiles) |-> screen.tiles[i].text]
               = <<"10 mg/L", "5 mg/L", "8 mg/L", "7 ", "15 mg/L", "3 °dH",
                   "2 mg/L">>

\* The Overview is on the page over a data set of several readings, and the
\* nitrite of the first reading (5) is above its alert threshold (1).
C5_Witness ==
    /\ screen.component = "Overview"
    /\ Len(Dataset) > 1
    /\ Field(Dataset[1], "nitrit") >= parameterInfo["nitrit"].alert
    /\ screen.tiles[2].text = "5 mg/L"

\* The keys of a selection that the registry has, in the selection's order.
KnownKeys(selectedParameters) ==
    SelectSeq(selectedParameters, LAMBDA p : p \in DOMAIN parameterInfo)

RegistryFields(reading) ==
    SelectSeq([i \in 1..Len(reading) |-> reading[i][1]],
              LAMBDA key : key \in DOMAIN parameterInfo)

\* C9: the Readings view shows the reading at currentReading: its date, its
\* temperature and prevDayTemp, its notes, and one entry per registry key the
\* reading has, with the reading's value and the registry's label and unit
\* (date, temperature, prevDayTemp, notes are no entries).  On sampleData:
\* index 0 shows 18, 17.5 and the first notes; next() from 0 shows index 1
\* with 19; next() from 1 still shows index 1.
C9_ShowsCurrentReading ==
    /\ [](InReadings =>
           LET reading == Dataset[view.currentReading + 1] IN
           /\ screen.error = "none"
           /\ screen.date = Field(reading, "date")
           /\ screen.notes = Field(reading, "notes")
           /\ [i \in 1..Len(screen.parameters) |-> screen.parameters[i].key]
                  = RegistryFields(reading)
           /\ \A i \in 1..Len(screen.parameters) :
                  LET entry == screen.parameters[i] IN
                  /\ entry.key \notin
                         {"date", "temperature", "prevDayTemp", "notes"}
                  /\ entry.label = parameterInfo[entry.key].label
                  /\ entry.unit = parameterInfo[entry.key].unit
                  /\ entry.value = Display(Field(reading, entry.key))
           /\ (Dataset = sampleData /\ view.currentReading = 0) =>
                  /\ screen.temperature = "18°C"
                  /\ screen.prevDayTemp = "17.5°C"
                  /\ screen.notes =
                         "Clear conditions with no significant debris."
                  /\ screen.parameters[4].text = "7 "
           /\ (Dataset = sampleData /\ view.currentReading = 1) =>
                  /\ NextReading(view.currentReading, Dataset) = 1
                  /\ screen.nextDisabled
                  /\ screen.temperature = "19°C"
                  /\ screen.prevDayTemp = "18°C"
                  /\ screen.parameters[4].text = "7.1 "
                  /\ screen.parameters[5].text = "14.5 mg/L")
    /\ [][(NextClick /\ Dataset = sampleData) =>
             (view'.currentReading = 1 /\ screen'.temperature = "19°C")]_vars

\* The second sample reading is shown, reached by next().
C9_Witness ==
    /\ InReadings
    /\ Dataset = sampleData
    /\ view.currentReading = 1
    /\ screen.heading = "Reading 2 of 2"
    /\ screen.temperature = "19°C"

\* C10: the selection of the Graphs view never holds a key twice and holds
\* registry keys only (so at most 7); toggling a key that is not selected
\* appends it at the end, toggling a selected key removes it and keeps the
\* others in their order.
C10_SelectionList ==
    /\ [](InGraphs =>
            /\ \A i, j \in 1..Len(view.selectedParameters) :
                   view.selectedParameters[i] = view.selectedParameters[j]
                       => i = j
            /\ Members(view.selectedParameters) \subseteq DOMAIN parameterInfo
            /\ Len(view.selectedParameters) <= 7)
    /\ [][\A key \in DOMAIN parameterInfo :
             Toggle(key) =>
                 LET old == view.selectedParameters
                     new == view'.selectedParameters
                 IN IF key \in Members(old)
                    THEN \E i \in 1..Len(old) :
                            /\ old[i] = key
                            /\ new = SubSeq(old, 1, i - 1)
                                       \o SubSeq(old, i + 1, Len(old))
                    ELSE /\ Len(new) = Len(old) + 1
                         /\ new[Len(new)] = key
                         /\ SubSeq(new, 1, Len(old)) = old]_vars

\* All seven keys are selected, the first of the default selection last.
C10_Witness ==
    /\ InGraphs
    /\ Len(view.selectedParameters) = 7
    /\ view.selectedParameters[7] = "nitrat"

====
